---- MODULE Spec2Model ----
(***************************************************************************)
(* Model of backend/server.js: the Express route handlers of the music     *)
(* backend (signup, login, song upload, and the three routes registered    *)
(* inside the upload handler), with the database tables and the uploads    *)
(* directory tree as state.                                                *)
(***************************************************************************)
EXTENDS Integers, Sequences, FiniteSets, TLC

VARIABLES clock, users, songs, playlists, history, fsSongs, fsCovers,
          coverDir, up, handlers, log, recs

vars == <<clock, users, songs, playlists, history, fsSongs, fsCovers,
          coverDir, up, handlers, log, recs>>

(***************************************************************************)
(* Bounds of the model.                                                    *)
(***************************************************************************)
MaxUploads == 2
MaxClock == 1
MaxAuth == 3
MaxCalls == 5
MaxReq == 3

(***************************************************************************)
(* JavaScript values: undefined, null, strings, numbers, arrays.           *)
(***************************************************************************)
Undef == [t |-> "undefined"]
Null == [t |-> "null"]
Str(s) == [t |-> "string", v |-> s]
Num(n) == [t |-> "number", v |-> n]
Arr(s) == [t |-> "array", v |-> s]

\* JavaScript truthiness of a value (undefined, null, "" and 0 are falsy).
Truthy(x) ==
  CASE x.t = "string" -> x.v # ""
    [] x.t = "number" -> x.v # 0
    [] x.t = "array" -> TRUE
    [] OTHER -> FALSE

\* a || b
Or(a, b) == IF Truthy(a) THEN a ELSE b

\* genre?.[0] : undefined when the array is missing or empty
First(a) == IF a.t = "array" /\ Len(a.v) > 0 THEN a.v[1] ELSE Undef

(***************************************************************************)
(* Request inputs.                                                         *)
(***************************************************************************)
\* An uploaded file's original name, kept as base name and extension.
Files == {[name |-> "track", ext |-> ".mp3"], [name |-> "track", ext |-> ".wav"]}
NoFile == [name |-> "", ext |-> ""]

OriginalName(f) == f.name \o f.ext

\* path.parse(file.originalname).name
PathParseName(f) == f.name

ClientValues == {Undef, Str(""), Str("client")}
TagValues == {Undef, Str(""), Str("tag")}
GenreValues == {Undef, Arr(<<>>), Arr(<<Str("")>>), Arr(<<Str("tag"), Str("tag2")>>)}

\* Every combination of the four descriptive client fields.
FieldBodies ==
  [title : ClientValues, artist : ClientValues, album : ClientValues,
   genre : ClientValues, mood : {Undef}, language : {Undef}, userId : {Str("7")}]

\* Every combination of the four embedded tags.
FieldMetas ==
  [title : TagValues, artist : TagValues, album : TagValues, genre : GenreValues,
   picture : {Undef}, bitrate : {Undef}, duration : {Undef}]

NoBody ==
  [title |-> Undef, artist |-> Undef, album |-> Undef, genre |-> Undef,
   mood |-> Undef, language |-> Undef, userId |-> Undef]

\* One request body for the runs that interleave several requests.
OneBody == {[NoBody EXCEPT !.mood = Str("happy"), !.userId = Str("7")]}

NoMeta ==
  [title |-> Undef, artist |-> Undef, album |-> Undef, genre |-> Undef,
   picture |-> Undef, bitrate |-> Undef, duration |-> Undef]

\* What the metadata extractor reports in those runs: no tag and no cover,
\* or tags and two covers.
TwoMetas ==
  {NoMeta,
   [NoMeta EXCEPT !.title = Str("tag"), !.picture = Arr(<<"img1", "img2">>),
                  !.bitrate = Num(320), !.duration = Num(180)]}

PlainMetas == {NoMeta}

(***************************************************************************)
(* The upload handler's computations.                                      *)
(***************************************************************************)
\* multer's filename callback: `${Date.now()}-${file.originalname}`, under
\* the destination directory.
StoragePath(now, f) == "uploads/songs/" \o ToString(now) \o "-" \o OriginalName(f)

\* `${Date.now()}-${filename}-cover.jpg` under uploads/covers
CoverPath(now, f) ==
  "uploads/covers/" \o ToString(now) \o "-" \o PathParseName(f) \o "-cover.jpg"

ResolveFieldClientFirst(tag, client, default) == Or(Or(client, tag), default)

\* tag || client || default
ResolveField(tag, client, default) == Or(Or(tag, client), default)

\* metadata.common.picture && metadata.common.picture.length > 0
HasPicture(meta) == meta.picture.t = "array" /\ Len(meta.picture.v) > 0

ThumbnailEmptyString(now, f, meta) ==
  IF HasPicture(meta) THEN Str(CoverPath(now, f)) ELSE Str("")

\* metadata.common.picture[0], whose data is written as the cover
CoverData(meta) == meta.picture.v[1]

\* The thumbnail path of an upload parsed at time `now`.
Thumbnail(now, f, meta) == IF HasPicture(meta) THEN Str(CoverPath(now, f)) ELSE Null

\* The parameters of the INSERT INTO songs statement.
SongArgs(f, body, meta, path, thumb) ==
  [title |-> ResolveField(meta.title, body.title, Str(PathParseName(f))),
   artist |-> ResolveField(meta.artist, body.artist, Str("Unknown Artist")),
   album |-> ResolveField(meta.album, body.album, Str("Unknown Album")),
   mood |-> Or(body.mood, Str("")),
   genre |-> ResolveField(First(meta.genre), body.genre, Str("Unknown")),
   language |-> body.language,
   filepath |-> Str(path),
   user_id |-> body.userId,
   bitrate |-> Or(meta.bitrate, Num(0)),
   duration |-> Or(meta.duration, Num(0)),
   thumbnail |-> thumb]

NoArgs == SongArgs(NoFile, NoBody, NoMeta, "", Null)

\* res.json({ success: true, message: ... })
UploadSuccess ==
  [status |-> 200, body |-> [success |-> TRUE, message |-> "Song uploaded with metadata!"]]

UploadFailureNoStatus(cause) ==
  [status |-> 200, body |-> [error |-> "Upload failed", details |-> cause]]

\* res.status(500).json({ error: "Upload failed", details: err.message })
UploadFailure(cause) ==
  [status |-> 500, body |-> [error |-> "Upload failed", details |-> cause]]

\* The routes registered inside the upload handler.
NestedRoutes == {"playlists", "play", "recommendations"}

RegisterOnce(h) == [r \in NestedRoutes |-> 1]

\* app.get / app.post at the end of the upload handler: one more handler each.
Register(h) == [r \in NestedRoutes |-> h[r] + 1]

Uploads == 1 .. MaxUploads

IdleUpload ==
  [pc |-> "idle", file |-> NoFile, body |-> NoBody, path |-> "", meta |-> NoMeta,
   args |-> NoArgs, writes |-> 0, image |-> "", fault |-> "none", row |-> 0,
   steps |-> <<>>, res |-> <<>>, reg |-> 0]

\* The id the database gives the next song row.
NextSongId == Len(songs) + 1

(***************************************************************************)
(* Initial state: empty tables, empty uploads tree, no nested route.       *)
(***************************************************************************)
InitPlaylists ==
  {[id |-> 1, name |-> "mix", user_id |-> "7"], [id |-> 2, name |-> "gym", user_id |-> "8"]}

Init ==
  /\ clock = 0
  /\ users = <<>>
  /\ songs = <<>>
  /\ playlists = InitPlaylists
  /\ history = <<>>
  /\ fsSongs = <<>>
  /\ fsCovers = <<>>
  /\ coverDir = FALSE
  /\ up = [u \in Uploads |-> IdleUpload]
  /\ handlers = [r \in NestedRoutes |-> 0]
  /\ log = <<>>
  /\ recs = <<>>

\* Date.now() advances.
Tick ==
  /\ clock < MaxClock
  /\ clock' = clock + 1
  /\ UNCHANGED <<users, songs, playlists, history, fsSongs, fsCovers, coverDir,
                 up, handlers, log, recs>>

(***************************************************************************)
(* POST /api/upload/song                                                   *)
(***************************************************************************)
\* The catch block, then the route registrations that follow the try/catch.
Caught(u, cause, step) ==
  [up[u] EXCEPT !.pc = "done", !.fault = cause,
                !.steps = Append(Append(@, step), "respond"),
                !.res = Append(@, UploadFailure(cause)), !.reg = @ + 1]

\* upload.single("song"): multer stores the payload, then the handler starts
\* and awaits the metadata parser.
Intake(u, Fs, Bodies) ==
  /\ up[u].pc = "idle"
  /\ \A v \in Uploads : v < u => up[v].pc # "idle"
  /\ \E f \in Fs, b \in Bodies :
       LET path == StoragePath(clock, f) IN
         /\ fsSongs' = (path :> u) @@ fsSongs
         /\ up' = [up EXCEPT ![u] = [@ EXCEPT !.pc = "parse", !.file = f, !.body = b,
                                              !.path = path, !.steps = <<"intake">>]]
  /\ UNCHANGED <<clock, users, songs, playlists, history, fsCovers, coverDir,
                 handlers, log, recs>>

\* A request without a file part: req.file is undefined and file.path throws.
UploadNoFile(u, Bodies) ==
  /\ up[u].pc = "idle"
  /\ \A v \in Uploads : v < u => up[v].pc # "idle"
  /\ \E b \in Bodies :
       up' = [up EXCEPT ![u] = [Caught(u, "nofile", "start") EXCEPT !.body = b]]
  /\ handlers' = Register(handlers)
  /\ UNCHANGED <<clock, users, songs, playlists, history, fsSongs, fsCovers,
                 coverDir, log, recs>>

\* import("music-metadata") or mm.parseFile rejects.
ParseFail(u) ==
  /\ up[u].pc = "parse"
  /\ up' = [up EXCEPT ![u] = Caught(u, "parse", "extract")]
  /\ handlers' = Register(handlers)
  /\ UNCHANGED <<clock, users, songs, playlists, history, fsSongs, fsCovers,
                 coverDir, log, recs>>

\* fs.mkdirSync of the cover directory throws.
CoverDirFail(u, Metas) ==
  /\ up[u].pc = "parse"
  /\ ~coverDir
  /\ \E m \in Metas :
       /\ HasPicture(m)
       /\ up' = [up EXCEPT ![u] = [Caught(u, "mkdir", "extract") EXCEPT !.meta = m]]
  /\ handlers' = Register(handlers)
  /\ UNCHANGED <<clock, users, songs, playlists, history, fsSongs, fsCovers,
                 coverDir, log, recs>>

\* fs.writeFileSync of the cover throws (the directory exists by then); the
\* failed write leaves no file or a truncated one.
CoverWriteFail(u, Metas) ==
  /\ up[u].pc = "parse"
  /\ \E m \in Metas, left \in BOOLEAN :
       LET thumb == Thumbnail(clock, up[u].file, m) IN
         /\ HasPicture(m)
         /\ fsCovers' = IF left THEN (thumb.v :> "truncated") @@ fsCovers ELSE fsCovers
         /\ up' = [up EXCEPT ![u] = [Caught(u, "write", "extract") EXCEPT
                                       !.meta = m, !.args.thumbnail = thumb]]
  /\ coverDir' = TRUE
  /\ handlers' = Register(handlers)
  /\ UNCHANGED <<clock, users, songs, playlists, history, fsSongs, log, recs>>

\* The parser answers: fields are resolved, the first cover (if any) is
\* written, and the INSERT is sent.
ParseOK(u, Metas) ==
  /\ up[u].pc = "parse"
  /\ \E m \in Metas :
       LET thumb == Thumbnail(clock, up[u].file, m) IN
         /\ fsCovers' = IF HasPicture(m)
                           THEN (thumb.v :> CoverData(m)) @@ fsCovers
                           ELSE fsCovers
         /\ coverDir' = (coverDir \/ HasPicture(m))
         /\ up' = [up EXCEPT ![u] =
                     [@ EXCEPT !.pc = "insert", !.meta = m,
                               !.args = SongArgs(up[u].file, up[u].body, m, up[u].path, thumb),
                               !.writes = IF HasPicture(m) THEN @ + 1 ELSE @,
                               !.image = IF HasPicture(m) THEN CoverData(m) ELSE @,
                               !.steps = IF HasPicture(m)
                                           THEN @ \o <<"extract", "cover">>
                                           ELSE Append(@, "extract")]]
  /\ UNCHANGED <<clock, users, songs, playlists, history, fsSongs, handlers, log, recs>>

\* The row the INSERT of upload u creates.
SongRow(u) == [id |-> NextSongId] @@ up[u].args

\* The INSERT completes: the row exists, success is answered, routes registered.
InsertOK(u) ==
  /\ up[u].pc = "insert"
  /\ songs' = Append(songs, SongRow(u))
  /\ up' = [up EXCEPT ![u] = [@ EXCEPT !.pc = "done", !.row = NextSongId,
                                       !.steps = @ \o <<"commit", "respond">>,
                                       !.res = Append(@, UploadSuccess),
                                       !.reg = @ + 1]]
  /\ handlers' = Register(handlers)
  /\ UNCHANGED <<clock, users, playlists, history, fsSongs, fsCovers, coverDir,
                 log, recs>>

\* The INSERT rejects.
InsertFail(u) ==
  /\ up[u].pc = "insert"
  /\ up' = [up EXCEPT ![u] = Caught(u, "insert", "commit")]
  /\ handlers' = Register(handlers)
  /\ UNCHANGED <<clock, users, songs, playlists, history, fsSongs, fsCovers,
                 coverDir, log, recs>>

(***************************************************************************)
(* Requests outside the upload handler are logged when they end: the       *)
(* request, the responses the application's handlers sent (res) and, for   *)
(* the nested routes, the handlers that ran (by).  A handler whose promise *)
(* rejects sends nothing, and neither does a route without a handler: what *)
(* the framework does with such a request is not part of the log.          *)
(***************************************************************************)

(***************************************************************************)
(* POST /api/auth/signup and POST /api/auth/login                          *)
(***************************************************************************)
Emails == {"a@b.com", "c@d.com"}
Passwords == {Str("pw123"), Str("other"), Undef}
Salts == {"s1", "s2"}

\* bcrypt.hash(password, 10): a salted one-way digest.
BcryptHash(p, salt) == [salt |-> salt, digest |-> <<salt, p.v>>]

\* bcrypt.compare(password, hash)
BcryptCompare(p, h) == h.digest = <<h.salt, p.v>>

\* users.email is unique: an INSERT of a stored email is rejected.
EmailFree(e) == \A i \in 1 .. Len(users) : users[i].email # e

\* The id the database gives the next user row.
NextUserId == Len(users) + 1

\* RETURNING id, email
Returning(row) == [id |-> row.id, email |-> row.email]

\* res.json({ user: result.rows[0] })
SignupResponse(row) == [status |-> 200, body |-> [user |-> Returning(row)]]

SignupOK(e, p, salt) ==
  /\ p.t = "string"
  /\ EmailFree(e)
  /\ LET row == [id |-> NextUserId, email |-> e, password |-> BcryptHash(p, salt)] IN
       /\ users' = Append(users, row)
       /\ log' = Append(log, [route |-> "signup", email |-> e, password |-> p,
                              res |-> <<SignupResponse(row)>>])
  /\ UNCHANGED <<clock, songs, playlists, history, fsSongs, fsCovers, coverDir,
                 up, handlers, recs>>

\* bcrypt.hash throws (no password) or the INSERT rejects (stored email,
\* database error): nothing is caught.
SignupFail(e, p) ==
  /\ log' = Append(log, [route |-> "signup", email |-> e, password |-> p, res |-> <<>>])
  /\ UNCHANGED <<clock, users, songs, playlists, history, fsSongs, fsCovers,
                 coverDir, up, handlers, recs>>

\* SELECT * FROM users WHERE email = $1
SelectUsers(e) == SelectSeq(users, LAMBDA r : r.email = e)

LoginSuccessWholeRow(user) == [status |-> 200, body |-> [user |-> user]]

\* res.json({ user: { id: user.id, email: user.email } })
LoginSuccess(user) == [status |-> 200, body |-> [user |-> [id |-> user.id, email |-> user.email]]]

\* res.status(401).json({ error: ... })
Unauthorized(msg) == [status |-> 401, body |-> [error |-> msg]]

LoginResponseNoCheck(e, p) ==
  LET rows == SelectUsers(e) IN
    IF Len(rows) = 0 THEN Unauthorized("User not found") ELSE LoginSuccess(rows[1])

\* The login handler's answer when nothing throws.
LoginResponse(e, p) ==
  LET rows == SelectUsers(e) IN
    IF Len(rows) = 0 THEN Unauthorized("User not found")
    ELSE IF ~BcryptCompare(p, rows[1].password) THEN Unauthorized("Invalid password")
    ELSE LoginSuccess(rows[1])

Login(e, p) ==
  /\ (SelectUsers(e) # <<>>) => p.t = "string"
  /\ log' = Append(log, [route |-> "login", email |-> e, password |-> p,
                         res |-> <<LoginResponse(e, p)>>])
  /\ UNCHANGED <<clock, users, songs, playlists, history, fsSongs, fsCovers,
                 coverDir, up, handlers, recs>>

\* The SELECT rejects, or bcrypt.compare throws (no password): nothing is caught.
LoginFail(e, p) ==
  /\ log' = Append(log, [route |-> "login", email |-> e, password |-> p, res |-> <<>>])
  /\ UNCHANGED <<clock, users, songs, playlists, history, fsSongs, fsCovers,
                 coverDir, up, handlers, recs>>

NextAuth ==
  \/ \E e \in Emails, p \in Passwords, s \in Salts : Len(log) < MaxAuth /\ SignupOK(e, p, s)
  \/ \E e \in Emails, p \in Passwords : Len(log) < MaxAuth /\ SignupFail(e, p)
  \/ \E e \in Emails, p \in Passwords : Len(log) < MaxAuth /\ Login(e, p)
  \/ \E e \in Emails, p \in Passwords : Len(log) < MaxAuth /\ LoginFail(e, p)

SpecAuth == Init /\ [][NextAuth]_vars

(***************************************************************************)
(* The routes registered inside the upload handler.                        *)
(***************************************************************************)
UserIds == {"7", "8"}
RecentLimit == 3
ResultLimit == 10

InvokedAll(route) == [i \in 1 .. handlers[route] |-> i]

\* The handlers the router runs for a request to a nested route: the first
\* registered one (it answers and never calls next), none when the route has
\* no handler yet.
Invoked(route) == IF handlers[route] = 0 THEN <<>> ELSE <<1>>

\* No handler matches: no handler of the application runs.
NotFound(route) ==
  /\ handlers[route] = 0
  /\ log' = Append(log, [route |-> route, n |-> handlers[route], threw |-> FALSE,
                         res |-> <<>>, by |-> Invoked(route)])
  /\ UNCHANGED <<clock, users, songs, playlists, history, fsSongs, fsCovers,
                 coverDir, up, handlers, recs>>

\* A query of a nested route's handler rejects: nothing is caught.
NestedFail(route) ==
  /\ handlers[route] > 0
  /\ log' = Append(log, [route |-> route, n |-> handlers[route], threw |-> TRUE,
                         res |-> <<>>, by |-> Invoked(route)])
  /\ UNCHANGED <<clock, users, songs, playlists, history, fsSongs, fsCovers,
                 coverDir, up, handlers, recs>>

\* SELECT id, name FROM playlists WHERE user_id = $1
SelectPlaylists(userId) ==
  {[id |-> pl.id, name |-> pl.name] : pl \in {q \in playlists : q.user_id = userId}}

\* GET /api/playlists
Playlists(userId) ==
  /\ handlers["playlists"] > 0
  /\ LET inv == Invoked("playlists") IN
       log' = Append(log, [route |-> "playlists", n |-> handlers["playlists"],
                           threw |-> FALSE, userId |-> userId,
                           res |-> [i \in DOMAIN inv |->
                                      [status |-> 200, body |-> SelectPlaylists(userId)]],
                           by |-> inv])
  /\ UNCHANGED <<clock, users, songs, playlists, history, fsSongs, fsCovers,
                 coverDir, up, handlers, recs>>

\* history.song_id refers to a stored song: other INSERTs are rejected.
SongExists(songId) == songId \in 1 .. Len(songs)

\* played_at is set by the database when the row is inserted.
PlayedAt == clock

\* INSERT INTO history (user_id, song_id) VALUES ($1, $2)
HistoryRow(userId, songId) == [user_id |-> userId, song_id |-> songId, played_at |-> PlayedAt]

\* POST /api/song/play
Play(userId, songId) ==
  /\ handlers["play"] > 0
  /\ SongExists(songId)
  /\ LET inv == Invoked("play") IN
       /\ history' = history \o [i \in DOMAIN inv |-> HistoryRow(userId, songId)]
       /\ log' = Append(log, [route |-> "play", n |-> handlers["play"], threw |-> FALSE,
                              userId |-> userId, songId |-> songId,
                              res |-> [i \in DOMAIN inv |->
                                         [status |-> 200, body |-> [success |-> TRUE]]],
                              by |-> inv])
  /\ UNCHANGED <<clock, users, songs, playlists, fsSongs, fsCovers, coverDir,
                 up, handlers, recs>>

\* The history rows of a user (every one joins a song).
HistoryOf(userId) == {i \in 1 .. Len(history) : history[i].user_id = userId}

Min(a, b) == IF a < b THEN a ELSE b

\* ORDER BY h.played_at DESC LIMIT 3: the orders the database may return,
\* rows of equal played_at in either order.
RecentOrders(userId) ==
  LET cand == HistoryOf(userId)
      k == Min(RecentLimit, Cardinality(cand))
  IN {s \in [1 .. k -> cand] :
        /\ \A i, j \in 1 .. k : i < j =>
              s[i] # s[j] /\ history[s[i]].played_at >= history[s[j]].played_at
        /\ \A c \in cand : (\A i \in 1 .. k : s[i] # c) =>
              \A i \in 1 .. k : history[s[i]].played_at >= history[c].played_at}

\* s.mood of a joined row, as the driver returns it.
MoodOf(h) == songs[h.song_id].mood.v

DedupNone(s) == s

RECURSIVE Dedup(_)
\* [...new Set(array)]: first occurrences, in order.
Dedup(s) ==
  IF s = <<>> THEN <<>>
  ELSE LET rest == Dedup(SubSeq(s, 1, Len(s) - 1))
           last == s[Len(s)]
       IN IF \E i \in 1 .. Len(rest) : rest[i] = last THEN rest ELSE Append(rest, last)

\* recent.rows.map((row) => row.mood), deduplicated
RecentMoods(order) == Dedup([i \in DOMAIN order |-> MoodOf(history[order[i]])])

\* mood = ANY($1::text[])
Matching(moods) ==
  {i \in 1 .. Len(songs) : \E j \in 1 .. Len(moods) : songs[i].mood.v = moods[j]}

\* ORDER BY RANDOM() LIMIT 10: the row sets the database may return.
Samples(moods) ==
  LET m == Matching(moods) IN
    {r \in SUBSET m : Cardinality(r) = Min(ResultLimit, Cardinality(m))}

\* GET /api/user/recommendations, up to the first query's answer.
RecQuery(userId) ==
  /\ handlers["recommendations"] > 0
  /\ \E order \in RecentOrders(userId) :
       recs' = Append(recs, [pc |-> "query", n |-> handlers["recommendations"],
                             userId |-> userId, hlen |-> Len(history),
                             recent |-> order, moods |-> RecentMoods(order),
                             res |-> <<>>,
                             by |-> Invoked("recommendations")])
  /\ UNCHANGED <<clock, users, songs, playlists, history, fsSongs, fsCovers,
                 coverDir, up, handlers, log>>

\* The second query's answer, and the response.
RecAnswer(n) ==
  /\ recs[n].pc = "query"
  /\ \E r \in Samples(recs[n].moods) :
       recs' = [recs EXCEPT ![n] =
                  [@ EXCEPT !.pc = "done",
                            !.res = [i \in DOMAIN recs[n].by |->
                                       [status |-> 200, body |-> {songs[j] : j \in r}]]]]
  /\ UNCHANGED <<clock, users, songs, playlists, history, fsSongs, fsCovers,
                 coverDir, up, handlers, log>>

(***************************************************************************)
(* The upload pipeline under concurrent requests.                          *)
(***************************************************************************)
NextUpload ==
  \/ Tick
  \/ \E u \in Uploads : Intake(u, Files, OneBody)
  \/ \E u \in Uploads : UploadNoFile(u, OneBody)
  \/ \E u \in Uploads : ParseFail(u)
  \/ \E u \in Uploads : CoverDirFail(u, TwoMetas)
  \/ \E u \in Uploads : CoverWriteFail(u, TwoMetas)
  \/ \E u \in Uploads : ParseOK(u, TwoMetas)
  \/ \E u \in Uploads : InsertOK(u)
  \/ \E u \in Uploads : InsertFail(u)

SpecUpload == Init /\ [][NextUpload]_vars

(***************************************************************************)
(* One upload alone, over every combination of tags and client fields.     *)
(***************************************************************************)
NextFields ==
  \/ Intake(1, Files, FieldBodies)
  \/ ParseOK(1, FieldMetas)
  \/ InsertOK(1)

SpecFields == Init /\ [][NextFields]_vars

(***************************************************************************)
(* Uploads that differ in mood, plays and recommendation requests.         *)
(***************************************************************************)
OneFile == {[name |-> "track", ext |-> ".mp3"]}

\* The catalogue: one upload per mood, in this order.
MoodSeq == <<"happy", "sad">>
MoodBody(m) == {[NoBody EXCEPT !.mood = Str(m), !.userId = Str("7")]}
Catalogued == Len(songs) = Len(MoodSeq)

\* Time matters here through played_at only: the clock advances after a play.
PlayedNow == history # <<>> /\ history[Len(history)].played_at = clock

NextRec ==
  \/ PlayedNow /\ Tick
  \/ \E u \in DOMAIN MoodSeq : Len(songs) = u - 1 /\ Intake(u, OneFile, MoodBody(MoodSeq[u]))
  \/ \E u \in DOMAIN MoodSeq : ParseOK(u, PlainMetas)
  \/ \E u \in DOMAIN MoodSeq : InsertOK(u)
  \/ \E j \in 1 .. Len(songs) : Catalogued /\ Len(log) + Len(recs) < MaxCalls /\ Play("7", j)
  \/ \E i \in UserIds : Catalogued /\ Len(log) + Len(recs) < MaxCalls /\ RecQuery(i)
  \/ \E n \in 1 .. Len(recs) : RecAnswer(n)

SpecRec == Init /\ [][NextRec]_vars

(***************************************************************************)
(* Every route, a bounded number of requests.  Date.now() stands still in  *)
(* this run: no property checked under it reads a path or a timestamp      *)
(* (SpecUpload and SpecRec let the clock advance).                         *)
(***************************************************************************)
OneEmail == {"a@b.com"}
TwoPasswords == {Str("pw123"), Undef}
OneSalt == {"s1"}
OneUser == {"7"}

Started == Len(log) + Len(recs) + Cardinality({u \in Uploads : up[u].pc # "idle"})

Next ==
  \/ \E u \in Uploads : Started < MaxReq /\ Intake(u, OneFile, OneBody)
  \/ \E u \in Uploads : Started < MaxReq /\ UploadNoFile(u, OneBody)
  \/ \E u \in Uploads : ParseFail(u)
  \/ \E u \in Uploads : CoverDirFail(u, TwoMetas)
  \/ \E u \in Uploads : CoverWriteFail(u, TwoMetas)
  \/ \E u \in Uploads : ParseOK(u, TwoMetas)
  \/ \E u \in Uploads : InsertOK(u)
  \/ \E u \in Uploads : InsertFail(u)
  \/ \E e \in OneEmail, p \in TwoPasswords, s \in OneSalt : Started < MaxReq /\ SignupOK(e, p, s)
  \/ \E e \in OneEmail, p \in TwoPasswords : Started < MaxReq /\ SignupFail(e, p)
  \/ \E e \in OneEmail, p \in TwoPasswords : Started < MaxReq /\ Login(e, p)
  \/ \E e \in OneEmail, p \in TwoPasswords : Started < MaxReq /\ LoginFail(e, p)
  \/ \E r \in NestedRoutes : Started < MaxReq /\ NotFound(r)
  \/ \E r \in NestedRoutes : Started < MaxReq /\ NestedFail(r)
  \/ \E i \in OneUser : Started < MaxReq /\ Playlists(i)
  \/ \E i \in OneUser, j \in 1 .. Len(songs) + 1 : Started < MaxReq /\ Play(i, j)
  \/ \E i \in OneUser : Started < MaxReq /\ RecQuery(i)
  \/ \E n \in 1 .. Len(recs) : RecAnswer(n)

Spec == Init /\ [][Next]_vars

(***************************************************************************)
(* Properties.                                                             *)
(***************************************************************************)
NonEmpty(x) == x.t = "string" /\ x.v # ""
Has(seq, x) == \E i \in DOMAIN seq : seq[i] = x
IsPrefix(a, b) == Len(a) <= Len(b) /\ SubSeq(b, 1, Len(a)) = a
Committed == {u \in Uploads : up[u].row # 0}

\* The value tag / client / default must give, case by case.
FieldChosen(tag, client, default, val) ==
  /\ val \in {tag, client, default}
  /\ NonEmpty(tag) => val = tag
  /\ (~NonEmpty(tag) /\ NonEmpty(client)) => val = client
  /\ (~NonEmpty(tag) /\ ~NonEmpty(client)) => val = default

GenreTag(meta) ==
  IF meta.genre.t = "array" /\ meta.genre.v # <<>> THEN Head(meta.genre.v) ELSE Undef

\* C1: in every song row, title, artist, album and genre are the embedded tag
\* when it is non-empty, else the client field when it is non-empty, else the
\* default (file name without extension, "Unknown Artist", "Unknown Album",
\* "Unknown"); an empty client field counts as a missing one.
C1_FieldResolution ==
  \A u \in Committed :
    LET r == songs[up[u].row]
        m == up[u].meta
        b == up[u].body
    IN /\ FieldChosen(m.title, b.title, Str(up[u].file.name), r.title)
       /\ FieldChosen(m.artist, b.artist, Str("Unknown Artist"), r.artist)
       /\ FieldChosen(m.album, b.album, Str("Unknown Album"), r.album)
       /\ FieldChosen(GenreTag(m), b.genre, Str("Unknown"), r.genre)

C1_Witness ==
  \E u \in Committed :
    LET r == songs[up[u].row]
        m == up[u].meta
        b == up[u].body
    IN /\ NonEmpty(m.title) /\ NonEmpty(b.title) /\ r.title = m.title
       /\ m.artist = Undef /\ b.artist = Str("") /\ r.artist = Str("Unknown Artist")
       /\ m.album = Str("") /\ NonEmpty(b.album) /\ r.album = b.album
       /\ m.genre = Arr(<<Str("tag"), Str("tag2")>>) /\ r.genre = Str("tag")

\* C2: an upload that fails at any step is answered exactly once, with a 500
\* carrying the cause, never with success, and has no song row; a failed
\* extraction is followed by no cover write and no insert.
C2_FailureIsOne500 ==
  /\ \A u \in Uploads :
       up[u].fault # "none" =>
         /\ up[u].pc = "done"
         /\ Len(up[u].res) = 1
         /\ up[u].res[1].status = 500
         /\ DOMAIN up[u].res[1].body = {"error", "details"}
         /\ up[u].res[1].body.details = up[u].fault
         /\ up[u].row = 0
         /\ up[u].fault \in {"parse", "mkdir", "write"} => ~Has(up[u].steps, "commit")
         /\ up[u].fault = "parse" => (up[u].writes = 0 /\ ~Has(up[u].steps, "cover"))
  /\ Len(songs) = Cardinality(Committed)
  /\ \A u, v \in Committed : up[u].row = up[v].row => u = v

C2_Witness ==
  \E u, v \in Uploads :
    /\ up[u].fault = "parse"
    /\ up[v].fault = "insert"
    /\ ~coverDir

\* An upload that has passed the cover step (its INSERT was sent).
PastCover(u) == up[u].pc = "insert" \/ up[u].row # 0 \/ up[u].fault = "insert"

CoverPerUpload ==
  \A u \in Uploads :
    /\ up[u].writes <= 1
    /\ PastCover(u) =>
         IF HasPicture(up[u].meta)
           THEN /\ up[u].writes = 1
                /\ up[u].image = Head(up[u].meta.picture.v)
                /\ up[u].args.thumbnail.t = "string"
                /\ up[u].args.thumbnail.v \in DOMAIN fsCovers
           ELSE up[u].writes = 0 /\ up[u].args.thumbnail = Null
    /\ up[u].row # 0 => songs[up[u].row].thumbnail = up[u].args.thumbnail

ThumbnailsWritten ==
  \A i \in DOMAIN songs :
    songs[i].thumbnail # Null =>
      songs[i].thumbnail.t = "string" /\ songs[i].thumbnail.v \in DOMAIN fsCovers

Referenced(p) == \E i \in DOMAIN songs : songs[i].thumbnail = Str(p)

\* C3 as stated: one cover per upload with a picture, referenced by its row,
\* none and a null thumbnail otherwise; hence every written cover is
\* referenced by a song row and every thumbnail references a written cover.
C3_EveryCoverReferenced ==
  /\ CoverPerUpload
  /\ ThumbnailsWritten
  /\ \A p \in DOMAIN fsCovers : Referenced(p)

\* C3 amended: the cover is written before the INSERT, so a cover file is
\* referenced by a song row, or belongs to an upload whose INSERT is pending
\* or whose cover write or INSERT has failed.
C3_CoverReferencedOnceCommitted ==
  /\ CoverPerUpload
  /\ ThumbnailsWritten
  /\ \A p \in DOMAIN fsCovers :
       \/ Referenced(p)
       \/ \E u \in Uploads :
            /\ up[u].args.thumbnail = Str(p)
            /\ up[u].pc = "insert" \/ up[u].fault \in {"write", "insert"}

C3_Witness ==
  \E u, v \in Uploads :
    /\ up[u].fault = "insert" /\ up[u].writes = 1
    /\ ~Referenced(up[u].args.thumbnail.v)
    /\ up[v].row # 0 /\ ~HasPicture(up[v].meta)
    /\ songs[up[v].row].thumbnail = Null

StepRank(step) ==
  CASE step \in {"start", "intake"} -> 1
    [] step = "extract" -> 2
    [] step = "cover" -> 3
    [] step = "commit" -> 4
    [] step = "respond" -> 5

Stored(u) == Has(up[u].steps, "intake")

\* C4: the steps of an upload run in the order intake, extraction, cover
\* write, commit, response; the audio artifact is stored before extraction
\* and stays stored afterwards, also after a failure, which leaves the file
\* without a song row.
C4_ArtifactStaysStored ==
  \A u \in Uploads :
    /\ \A i, j \in DOMAIN up[u].steps :
         i < j => StepRank(up[u].steps[i]) < StepRank(up[u].steps[j])
    /\ Has(up[u].steps, "extract") => up[u].steps[1] = "intake"
    /\ Stored(u) => (up[u].path \in DOMAIN fsSongs /\ fsSongs[up[u].path] = u)
    /\ (Stored(u) /\ up[u].fault # "none") => up[u].row = 0

\* C9: two distinct uploads never share a stored path, so no upload's file
\* is overwritten and no two song rows share a file path.
C9_UniquePaths ==
  /\ \A u, v \in Uploads : (Stored(u) /\ Stored(v) /\ u # v) => up[u].path # up[v].path
  /\ \A u \in Uploads : Stored(u) => fsSongs[up[u].path] = u
  /\ \A i, j \in DOMAIN songs : i # j => songs[i].filepath # songs[j].filepath

Last(seq) == seq[Len(seq)]

\* The password a stored user signed up with, from the log.
SignedUpWith(e) ==
  {log[i].password : i \in {k \in DOMAIN log :
     log[k].route = "signup" /\ log[k].email = e /\ log[k].res # <<>>}}

AuthRoutes == {"signup", "login"}

\* C6: a login after a completed signup with the same email and password
\* succeeds with the id and email the signup returned; no signup or login
\* response carries the password or its hash.
C6_LoginAfterSignup ==
  /\ \A i, j \in DOMAIN log :
       (/\ i < j
        /\ log[i].route = "signup" /\ log[i].res # <<>>
        /\ log[j].route = "login" /\ log[j].res # <<>>
        /\ log[j].email = log[i].email /\ log[j].password = log[i].password) =>
          /\ log[j].res[1].status = 200
          /\ log[j].res[1].body.user = log[i].res[1].body.user
          /\ log[j].res[1].body.user.email = log[i].email
  /\ \A i \in DOMAIN log :
       (log[i].route \in AuthRoutes /\ log[i].res # <<>>) =>
          /\ Len(log[i].res) = 1
          /\ \/ DOMAIN log[i].res[1].body = {"error"}
             \/ /\ DOMAIN log[i].res[1].body = {"user"}
                /\ DOMAIN log[i].res[1].body.user = {"id", "email"}

C6_Witness ==
  \E i, j, k \in DOMAIN log :
    /\ i < j /\ j < k
    /\ log[i].route = "signup" /\ log[i].res # <<>>
    /\ log[j].route = "signup" /\ log[j].res # <<>> /\ log[j].password = log[i].password
    /\ log[k].route = "login" /\ log[k].email = log[j].email
    /\ log[k].password = log[j].password
    /\ log[k].res # <<>> /\ log[k].res[1].body.user.id = 2

Succeeded == {u \in Uploads : Has(up[u].res, UploadSuccess)}

RowsKept ==
  /\ IsPrefix(users, users')
  /\ IsPrefix(songs, songs')
  /\ IsPrefix(history, history')
  /\ playlists' = playlists

OneSongPerSuccess ==
  songs' # songs =>
    /\ Len(songs') = Len(songs) + 1
    /\ \E u \in Uploads : u \notin Succeeded /\ Succeeded' = Succeeded \cup {u}

OneRowPerPlay ==
  /\ history' # history =>
       /\ Len(history') = Len(history) + 1
       /\ Len(log') = Len(log) + 1 /\ Last(log').route = "play"
  /\ (Len(log') = Len(log) + 1 /\ Last(log').route = "play" /\ Last(log').res # <<>>) =>
       Len(history') = Len(history) + 1

\* C7: a song row is created once per upload that answers success, after the
\* insert, and by nothing else; no step changes or removes a stored user,
\* song, playlist or history row; history grows by one row per handled play.
C7_RowsAppendOnly ==
  /\ [](Cardinality(Succeeded) = Len(songs) /\ Succeeded = Committed)
  /\ [][RowsKept /\ OneSongPerSuccess /\ OneRowPerPlay]_vars

C7_Witness ==
  /\ Len(songs) = 1
  /\ Len(history) = 1
  /\ \E u \in Uploads : up[u].fault = "insert"

Range(seq) == {seq[i] : i \in DOMAIN seq}

\* The rows of a user among the first n history rows.
EarlierOf(userId, n) == {k \in 1 .. n : history[k].user_id = userId}

Handled == {u \in Uploads : up[u].pc = "done"}

\* Every request to a nested route so far: the handlers registered when it
\* arrived (n), whether a query of its handler rejected (threw), whether it
\* is still in flight (pending), how many responses were sent (answers) and
\* the handlers run (by).
NestedCalls ==
  {[n |-> log[i].n, threw |-> log[i].threw, pending |-> FALSE,
    answers |-> Len(log[i].res), by |-> log[i].by] :
     i \in {k \in DOMAIN log : log[k].route \in NestedRoutes}}
    \cup {[n |-> recs[i].n, threw |-> FALSE, pending |-> recs[i].pc # "done",
           answers |-> Len(recs[i].res), by |-> recs[i].by] : i \in DOMAIN recs}

\* C10: the three nested routes get their handlers from the upload handler
\* only, one more each per handled upload, failed or not; with no handler a
\* request is not served; with n handlers it is answered once, by the first
\* (not at all when a query of that handler rejects).
C10_NestedRegistration ==
  /\ \A r \in NestedRoutes : handlers[r] = Cardinality(Handled)
  /\ \A u \in Uploads : up[u].reg = IF u \in Handled THEN 1 ELSE 0
  /\ \A c \in NestedCalls :
       /\ c.n = 0 => (c.answers = 0 /\ c.by = <<>>)
       /\ c.n > 0 => c.by = <<1>>
       /\ c.answers <= 1
       /\ (c.n > 0 /\ ~c.threw /\ ~c.pending) => c.answers = 1

C10_Witness ==
  /\ \E u, v \in Uploads : up[u].fault # "none" /\ up[v].row # 0
  /\ \E i \in DOMAIN log :
       /\ log[i].route = "play"
       /\ log[i].n = 2
       /\ Len(log[i].res) = 1
  /\ Len(history) = 1

====
